---- MODULE Spec2Model ----
(***************************************************************************)
(* model-integrity-checker: the library (calculate_checksum,               *)
(* verify_checksum, save_checksums, load_checksums, scan_directory) and    *)
(* its command line (main and its sub-commands), as one sequential program *)
(* running on a file system that the environment may change between its   *)
(* steps.                                                                  *)
(*                                                                         *)
(* A Python str is a sequence of one-character strings, a file's content   *)
(* a sequence of byte values, a path a sequence of names.  Each function   *)
(* of the program has one activation record (cc, vc, st, sd, cli) whose pc *)
(* is "idle" while the function is not running; ret carries what the last  *)
(* finished function returned or raised to its caller.                     *)
(***************************************************************************)
EXTENDS Integers, Sequences, FiniteSets, TLC

VARIABLES
    fs,       \* path -> [kind, readable, writable, data]
    handles,  \* the file handles open now: {[path, mode]}
    cc,       \* calculate_checksum's activation
    vc,       \* verify_checksum's activation
    st,       \* save_checksums' / load_checksums' activation
    sd,       \* scan_directory's activation
    cli,      \* main's activation (with the sub-command it dispatched to)
    ret,      \* [kind: none | return | raise, val, exc] of the last finished call
    top,      \* the call the user made: [fn, ...arguments]
    out,      \* what was printed to stdout
    err,      \* what was printed to stderr
    fed,      \* history: the chunks passed to hasher.update by the running hash
    io,       \* history: file-system calls made since the user's call started
    saved,    \* history: path -> the record the last successful save wrote there
    ccErr,    \* history: what calculate_checksum raised since the user's call started
    touched,  \* history: paths the environment changed since the user's call started
    nops,     \* user calls made so far
    nenv      \* environment events so far

vars == <<fs, handles, cc, vc, st, sd, cli, ret, top, out, err, fed, io, saved,
          ccErr, touched, nops, nenv>>

----------------------------------------------------------------------------
(* Bounds of the model *)

\* the largest hashed file holds MaxChunks full chunks and one byte more
MaxChunks == 2
\* user calls per behaviour
MaxOps == 2
\* environment events (a file removed, a permission revoked) per behaviour
MaxEnv == 1

----------------------------------------------------------------------------
(* Program constants *)

\* f.read(8192)
CHUNK == 8192

\* SUPPORTED_FORMATS = [".h5", ".pt", ".onnx"]
SUPPORTED_FORMATS == << <<".", "h", "5">>, <<".", "p", "t">>, <<".", "o", "n", "n", "x">> >>

\* get_supported_formats: a copy of the list
get_supported_formats == SUPPORTED_FORMATS

----------------------------------------------------------------------------
(* Sequences *)

Min(a, b) == IF a < b THEN a ELSE b

Range(s) == {s[i] : i \in DOMAIN s}

Front(s) == SubSeq(s, 1, Len(s) - 1)

Last(s) == s[Len(s)]

RECURSIVE Concat(_)
Concat(ss) == IF ss = <<>> THEN <<>> ELSE Head(ss) \o Concat(Tail(ss))

----------------------------------------------------------------------------
(* Exceptions.  "except C" catches an exception whose type is C or a       *)
(* subclass of C.                                                          *)

Exc(type, path) == [type |-> type, path |-> path]

Bases(type) ==
    CASE type = "FileNotFoundError" -> {"FileNotFoundError", "OSError"}
      [] type = "IsADirectoryError" -> {"IsADirectoryError", "OSError"}
      [] type = "NotADirectoryError" -> {"NotADirectoryError", "OSError"}
      [] type = "PermissionError" -> {"PermissionError", "OSError"}
      [] type = "JSONDecodeError" -> {"JSONDecodeError", "ValueError"}
      [] type = "UnicodeDecodeError" -> {"UnicodeDecodeError", "ValueError"}
      [] OTHER -> {type}

Catches(classes, exc) == Bases(exc.type) \cap classes # {}

Return(v) == [kind |-> "return", val |-> v]
Raise(e) == [kind |-> "raise", exc |-> e]
NoRet == [kind |-> "none"]
Idle == [pc |-> "idle"]

----------------------------------------------------------------------------
(* Python str: sequences of one-character strings *)

LowerChar(c) ==
    CASE c = "S" -> "s" [] c = "H" -> "h" [] c = "A" -> "a"
      [] c = "M" -> "m" [] c = "D" -> "d" [] c = "B" -> "b"
      [] c = "C" -> "c" [] c = "E" -> "e" [] c = "F" -> "f"
      [] OTHER -> c

UpperChar(c) ==
    CASE c = "a" -> "A" [] c = "b" -> "B" [] c = "c" -> "C"
      [] c = "d" -> "D" [] c = "e" -> "E" [] c = "f" -> "F"
      [] OTHER -> c

\* str.lower()
Lower(s) == [i \in DOMAIN s |-> LowerChar(s[i])]

\* str.upper()
Upper(s) == [i \in DOMAIN s |-> UpperChar(s[i])]

\* None, where a str may stand: a sequence that is no str
None == <<"None">>

\* bool(s) of a str or None: None and "" are false
Truthy(s) == s # None /\ s # <<>>

\* None, where a path may stand
NoPath == <<None>>

----------------------------------------------------------------------------
(* The file system *)

nD == <<"d">>
nA == <<"a", ".", "h", "5">>
nB == <<"b", ".", "p", "t">>
nN == <<"n", ".", "t", "x", "t">>
nX == <<"x", ".", "h", "5">>
nS == <<"s">>
nC == <<"c", ".", "h", "5">>
nT == <<"t">>
nE == <<"e", ".", "o", "n", "n", "x">>
nJ == <<"c", ".", "j", "s">>
nQ == <<"q">>
nO == <<"o", ".", "j", "s">>

pD == <<nD>>                \* d
pA == <<nD, nA>>            \* d/a.h5
pB == <<nD, nB>>            \* d/b.pt
pN == <<nD, nN>>            \* d/n.txt
pX == <<nD, nX>>            \* d/x.h5
pS == <<nD, nS>>            \* d/s
pC == <<nD, nS, nC>>        \* d/s/c.h5
pT == <<nD, nS, nT>>        \* d/s/t
pE == <<nD, nS, nT, nE>>    \* d/s/t/e.onnx
pJ == <<nJ>>                \* c.js
pQ == <<nQ>>                \* q, never created
pO == <<nQ, nO>>            \* q/o.js, in a directory that does not exist

Paths == {pD, pA, pB, pN, pX, pS, pC, pT, pE, pJ, pQ, pO}

NoNode == [kind |-> "none", readable |-> FALSE, writable |-> FALSE, data |-> <<>>]
Dir == [kind |-> "dir", readable |-> TRUE, writable |-> TRUE, data |-> <<>>]
File(data) == [kind |-> "file", readable |-> TRUE, writable |-> TRUE, data |-> data]
Locked(data) == [kind |-> "file", readable |-> FALSE, writable |-> FALSE, data |-> data]

EmptyFs == [p \in Paths |-> NoNode]

\* Path.exists()
Exists(f, p) == f[p].kind # "none"

\* Path.is_file()
IsFile(f, p) == f[p].kind = "file"

\* what open(p, "rb") / open(p, "r") raises, "ok" when it opens the file
OpenRead(f, p) ==
    CASE f[p].kind = "none" -> "FileNotFoundError"
      [] f[p].kind = "dir" -> "IsADirectoryError"
      [] ~f[p].readable -> "PermissionError"
      [] OTHER -> "ok"

\* what open(p, "w") raises, "ok" when it creates or truncates the file
OpenWrite(f, p) ==
    CASE Len(p) > 1 /\ f[Front(p)].kind = "none" -> "FileNotFoundError"
      [] Len(p) > 1 /\ f[Front(p)].kind = "file" -> "NotADirectoryError"
      [] f[p].kind = "dir" -> "IsADirectoryError"
      [] f[p].kind = "file" /\ ~f[p].writable -> "PermissionError"
      [] OTHER -> "ok"

Handle(p, mode) == [path |-> p, mode |-> mode]

\* a file-system call, as recorded in io
Sys(call, p) == [call |-> call, path |-> p]

----------------------------------------------------------------------------
(* hashlib, as far as the program uses it: a running digest that is a      *)
(* function of the bytes fed so far, in order, rendered in lowercase hex.  *)
(* The stand-in is a polynomial hash of 15 bits, one base per algorithm.   *)

HashMod == 2 ^ 15

HashBase(alg) ==
    CASE alg = <<"s", "h", "a", "2", "5", "6">> -> 31
      [] alg = <<"m", "d", "5">> -> 37
      [] alg = <<"s", "h", "a", "1">> -> 41

\* the digest of l \o r from the digests of l and r
PolyJoin(l, r) == [h |-> (l.h * r.p + r.h) % HashMod, p |-> (l.p * r.p) % HashMod]

\* the digest of s[lo..hi] from the empty state, and base^(hi-lo+1)
RECURSIVE Poly(_, _, _, _)
Poly(b, s, lo, hi) ==
    IF lo > hi THEN [h |-> 0, p |-> 1]
    ELSE IF lo = hi THEN [h |-> (s[lo] + 1) % HashMod, p |-> b % HashMod]
    ELSE PolyJoin(Poly(b, s, lo, (lo + hi) \div 2),
                  Poly(b, s, (lo + hi) \div 2 + 1, hi))

\* hashlib.sha256() / hashlib.md5() / hashlib.sha1()
hashlib_new(alg) == [alg |-> alg, h |-> 0]

\* hasher.update(chunk)
hasher_update(hasher, chunk) ==
    [hasher EXCEPT !.h = PolyJoin([h |-> @, p |-> 1],
                                  Poly(HashBase(hasher.alg), chunk, 1, Len(chunk))).h]

HexChars == <<"0", "1", "2", "3", "4", "5", "6", "7", "8", "9", "a", "b", "c", "d", "e", "f">>

\* hasher.hexdigest(): four lowercase hex digits
hasher_hexdigest(hasher) ==
    [i \in 1..4 |-> HexChars[((hasher.h \div (16 ^ (4 - i))) % 16) + 1]]

\* the digest of a whole content computed in one step
Digest(alg, data) == hasher_hexdigest(hasher_update(hashlib_new(alg), data))

SHA256 == <<"s", "h", "a", "2", "5", "6">>

----------------------------------------------------------------------------
(* calculate_checksum(path, algorithm)                                     *)

\* the activation a call creates
calculate_checksum_call(path, algorithm, caller) ==
    [pc |-> "exists", path |-> path, algorithm |-> algorithm,
     hasher |-> hashlib_new(SHA256), pos |-> 0, caller |-> caller]

\* the function ends: it returns or raises r to its caller
calculate_checksum_end(r) ==
    /\ cc' = Idle
    /\ ret' = r
    /\ ccErr' = IF r.kind = "raise" THEN ccErr \cup {r.exc} ELSE ccErr

\* mutant: the check asks is_file() where the code asks exists()
PathMissing_NotFile(f, p) == ~IsFile(f, p)

\* line 31: if not path.exists()
PathMissing(f, p) == ~Exists(f, p)

\* lines 31-32: if not path.exists(): raise FileNotFoundError
calculate_checksum_exists ==
    /\ cc.pc = "exists"
    /\ io' = io \cup {Sys("stat", cc.path)}
    /\ IF PathMissing(fs, cc.path)
       THEN calculate_checksum_end(Raise(Exc("FileNotFoundError", cc.path)))
       ELSE cc' = [cc EXCEPT !.pc = "select"] /\ UNCHANGED <<ret, ccErr>>
    /\ UNCHANGED <<fs, handles, vc, st, sd, cli, top, out, err, fed, saved,
                   touched, nops, nenv>>

\* lines 34-41: the hasher of algorithm.lower(), or ValueError
calculate_checksum_select ==
    /\ cc.pc = "select"
    /\ IF Lower(cc.algorithm) \in {SHA256, <<"m", "d", "5">>, <<"s", "h", "a", "1">>}
       THEN /\ cc' = [cc EXCEPT !.pc = "open", !.hasher = hashlib_new(Lower(cc.algorithm))]
            /\ UNCHANGED <<ret, ccErr>>
       ELSE calculate_checksum_end(Raise(Exc("ValueError", cc.path)))
    /\ UNCHANGED <<fs, handles, vc, st, sd, cli, top, out, err, fed, io, saved,
                   touched, nops, nenv>>

\* line 43: with open(path, "rb") as f
calculate_checksum_open ==
    /\ cc.pc = "open"
    /\ io' = io \cup {Sys("open", cc.path)}
    /\ IF OpenRead(fs, cc.path) = "ok"
       THEN /\ handles' = handles \cup {Handle(cc.path, "rb")}
            /\ cc' = [cc EXCEPT !.pc = "read", !.pos = 0]
            /\ UNCHANGED <<ret, ccErr>>
       ELSE /\ calculate_checksum_end(Raise(Exc(OpenRead(fs, cc.path), cc.path)))
            /\ UNCHANGED handles
    /\ UNCHANGED <<fs, vc, st, sd, cli, top, out, err, fed, saved, touched, nops, nenv>>

\* mutant: the read returns full chunks only, so a last short chunk is lost
ReadChunk_FullOnly(data, pos) ==
    IF pos + CHUNK <= Len(data) THEN SubSeq(data, pos + 1, pos + CHUNK) ELSE <<>>

\* f.read(8192) of a buffered file at pos: the next 8192 bytes, fewer at the end
ReadChunk(data, pos) == SubSeq(data, pos + 1, Min(pos + CHUNK, Len(data)))

\* leaving the with block by its end: f is closed
WithExit(hs, h) == hs \ {h}

\* mutant: an exception leaves the block without closing the file
WithRaise_Leak(hs, h) == hs

\* leaving the with block by an exception: f is closed
WithRaise(hs, h) == hs \ {h}

\* lines 44-45: while chunk := f.read(8192): hasher.update(chunk)
calculate_checksum_read ==
    /\ cc.pc = "read"
    /\ io' = io \cup {Sys("read", cc.path)}
    /\ LET chunk == ReadChunk(fs[cc.path].data, cc.pos)
       IN  IF chunk # <<>>
           THEN /\ cc' = [cc EXCEPT !.hasher = hasher_update(@, chunk),
                                    !.pos = @ + Len(chunk)]
                /\ fed' = Append(fed, chunk)
                /\ UNCHANGED <<handles, ret, ccErr>>
           ELSE \* line 47: return hasher.hexdigest()
                /\ handles' = WithExit(handles, Handle(cc.path, "rb"))
                /\ calculate_checksum_end(Return(hasher_hexdigest(cc.hasher)))
                /\ UNCHANGED fed
    /\ UNCHANGED <<fs, vc, st, sd, cli, top, out, err, saved, touched, nops, nenv>>

\* line 44: f.read fails (an I/O error of the device): OSError leaves the with block
calculate_checksum_read_error ==
    /\ cc.pc = "read"
    /\ io' = io \cup {Sys("read", cc.path)}
    /\ handles' = WithRaise(handles, Handle(cc.path, "rb"))
    /\ calculate_checksum_end(Raise(Exc("OSError", cc.path)))
    /\ UNCHANGED <<fs, vc, st, sd, cli, top, out, err, fed, saved, touched, nops, nenv>>

calculate_checksum ==
    \/ calculate_checksum_exists
    \/ calculate_checksum_select
    \/ calculate_checksum_open
    \/ calculate_checksum_read
    \/ calculate_checksum_read_error

----------------------------------------------------------------------------
(* verify_checksum(path, expected_checksum)                                *)

\* mutant: the comparison ignores case
Matches_IgnoreCase(actual, expected) == Lower(actual) = Lower(expected)

\* line 62: actual == expected_checksum
Matches(actual, expected) == actual = expected

\* line 63: except (FileNotFoundError, ValueError)
VerifyCaught == {"FileNotFoundError", "ValueError"}

\* line 61: actual = calculate_checksum(path)
verify_checksum_call(path, expected, caller) ==
    [pc |-> "await", path |-> path, expected |-> expected, caller |-> caller]

\* lines 62-64: the comparison, or False for a caught exception; any other
\* exception leaves verify_checksum as it came
verify_checksum_resume ==
    /\ vc.pc = "await"
    /\ cc.pc = "idle"
    /\ vc' = Idle
    /\ ret' = IF ret.kind = "return" THEN Return(Matches(ret.val, vc.expected))
              ELSE IF Catches(VerifyCaught, ret.exc) THEN Return(FALSE)
              ELSE ret
    /\ UNCHANGED <<fs, handles, cc, st, sd, cli, top, out, err, fed, io, saved,
                   ccErr, touched, nops, nenv>>

----------------------------------------------------------------------------
(* A dict is the sequence of its <<key, value>> items in insertion order,  *)
(* its keys distinct.                                                      *)

DictKeys(d) == {d[i][1] : i \in DOMAIN d}

DictHas(d, k) == k \in DictKeys(d)

DictGet(d, k) == d[CHOOSE i \in DOMAIN d : d[i][1] = k][2]

\* d[k] = v: a new key comes last, a known key keeps its place
DictSet(d, k, v) ==
    IF DictHas(d, k)
    THEN [i \in DOMAIN d |-> IF d[i][1] = k THEN <<k, v>> ELSE d[i]]
    ELSE Append(d, <<k, v>>)

\* d1 == d2: the same items, in any order
DictEq(d1, d2) == Range(d1) = Range(d2)

----------------------------------------------------------------------------
(* json.dump(obj, f, indent=2) and json.load(f) on dicts of str to str,    *)
(* and the text files they write and read.                                 *)

QUOTE == "\""
BACKSLASH == "\\"
NEWLINE == "\n"

\* the escape of one character inside a JSON string (ensure_ascii)
EscapeChar(c) ==
    CASE c = QUOTE -> <<BACKSLASH, QUOTE>>
      [] c = BACKSLASH -> <<BACKSLASH, BACKSLASH>>
      [] c = NEWLINE -> <<BACKSLASH, "n">>
      [] OTHER -> <<c>>

RECURSIVE Escape(_)
Escape(str) == IF str = <<>> THEN <<>> ELSE EscapeChar(Head(str)) \o Escape(Tail(str))

\* a str as a JSON string
EncodeString(str) == <<QUOTE>> \o Escape(str) \o <<QUOTE>>

\* one item of the object on its line: two spaces, "key": "value"
DumpItem(item) == <<" ", " ">> \o EncodeString(item[1]) \o <<":", " ">> \o EncodeString(item[2])

RECURSIVE DumpItems(_)
DumpItems(d) ==
    IF Len(d) = 1 THEN DumpItem(d[1])
    ELSE DumpItem(d[1]) \o <<",", NEWLINE>> \o DumpItems(Tail(d))

\* json.dumps(d, indent=2)
json_dumps(d) ==
    IF d = <<>> THEN <<"{", "}">>
    ELSE <<"{", NEWLINE>> \o DumpItems(d) \o <<NEWLINE, "}">>

ParseFail == [ok |-> FALSE, val |-> <<>>, next |-> 0]
ParseOk(v, next) == [ok |-> TRUE, val |-> v, next |-> next]

\* the first position at or after i that holds no white space
RECURSIVE SkipWs(_, _)
SkipWs(t, i) ==
    IF i <= Len(t) /\ t[i] \in {" ", NEWLINE} THEN SkipWs(t, i + 1) ELSE i

\* the rest of a JSON string whose opening quote was read: its str and the
\* position after its closing quote
RECURSIVE ScanString(_, _, _)
ScanString(t, i, acc) ==
    IF i > Len(t) THEN ParseFail
    ELSE IF t[i] = QUOTE THEN ParseOk(acc, i + 1)
    ELSE IF t[i] = NEWLINE THEN ParseFail
    ELSE IF t[i] # BACKSLASH THEN ScanString(t, i + 1, Append(acc, t[i]))
    ELSE IF i + 1 > Len(t) THEN ParseFail
    ELSE IF t[i + 1] \in {QUOTE, BACKSLASH} THEN ScanString(t, i + 2, Append(acc, t[i + 1]))
    ELSE IF t[i + 1] = "n" THEN ScanString(t, i + 2, Append(acc, NEWLINE))
    ELSE ParseFail

ParseString(t, i) ==
    IF i <= Len(t) /\ t[i] = QUOTE THEN ScanString(t, i + 1, <<>>) ELSE ParseFail

RECURSIVE ParseMembers(_, _, _)

\* after an item: "}" ends the object, "," announces the next item
AfterMember(t, j, acc) ==
    IF j > Len(t) THEN ParseFail
    ELSE IF t[j] = "}" THEN ParseOk(acc, j + 1)
    ELSE IF t[j] = "," THEN ParseMembers(t, SkipWs(t, j + 1), acc)
    ELSE ParseFail

AfterValue(t, k, v, acc) ==
    IF ~v.ok THEN ParseFail
    ELSE AfterMember(t, SkipWs(t, v.next), DictSet(acc, k.val, v.val))

AfterColon(t, k, j, acc) ==
    IF j > Len(t) \/ t[j] # ":" THEN ParseFail
    ELSE AfterValue(t, k, ParseString(t, SkipWs(t, j + 1)), acc)

AfterKey(t, k, acc) ==
    IF ~k.ok THEN ParseFail ELSE AfterColon(t, k, SkipWs(t, k.next), acc)

\* the items of an object from position i, which must hold a key
ParseMembers(t, i, acc) == AfterKey(t, ParseString(t, i), acc)

ParseObject(t, i) ==
    IF i > Len(t) \/ t[i] # "{" THEN ParseFail
    ELSE IF SkipWs(t, i + 1) <= Len(t) /\ t[SkipWs(t, i + 1)] = "}"
         THEN ParseOk(<<>>, SkipWs(t, i + 1) + 1)
    ELSE ParseMembers(t, SkipWs(t, i + 1), <<>>)

\* nothing but white space may follow the document
WholeText(t, r) == IF r.ok /\ SkipWs(t, r.next) > Len(t) THEN r ELSE ParseFail

\* json.loads(t) of a document that is an object of strings; every other text
\* the model holds is no JSON at all
json_loads(t) == WholeText(t, ParseObject(t, SkipWs(t, 1)))

\* the characters of the model's texts and their code points
CharCodes ==
    << <<NEWLINE, 10>>, <<" ", 32>>, <<QUOTE, 34>>, <<",", 44>>, <<".", 46>>, <<"/", 47>>,
       <<"0", 48>>, <<"1", 49>>, <<"2", 50>>, <<"3", 51>>, <<"4", 52>>, <<"5", 53>>,
       <<"6", 54>>, <<"7", 55>>, <<"8", 56>>, <<"9", 57>>, <<":", 58>>,
       <<BACKSLASH, 92>>, <<"a", 97>>, <<"b", 98>>, <<"c", 99>>, <<"d", 100>>,
       <<"e", 101>>, <<"f", 102>>, <<"h", 104>>, <<"j", 106>>, <<"n", 110>>,
       <<"o", 111>>, <<"p", 112>>, <<"q", 113>>, <<"s", 115>>, <<"t", 116>>,
       <<"x", 120>>, <<"{", 123>>, <<"}", 125>> >>

TextChars == {CharCodes[i][1] : i \in DOMAIN CharCodes}

\* ord(c)
Ord(c) == CharCodes[CHOOSE i \in DOMAIN CharCodes : CharCodes[i][1] = c][2]

\* chr(b)
Chr(b) == CharCodes[CHOOSE i \in DOMAIN CharCodes : CharCodes[i][2] = b][1]

\* what a text file holds after write(text)
EncodeText(text) == [i \in DOMAIN text |-> Ord(text[i])]

TextBytes == {Ord(c) : c \in TextChars}

\* whether f.read() of a text file decodes
Decodes(data) == \A i \in DOMAIN data : data[i] \in TextBytes

DecodeText(data) == [i \in DOMAIN data |-> Chr(data[i])]

----------------------------------------------------------------------------
(* save_checksums(checksums, filepath)                                     *)

save_checksums_call(checksums, filepath, caller) ==
    [pc |-> "save_open", checksums |-> checksums, filepath |-> filepath,
     caller |-> caller]

\* mutant: the file is opened for appending
OpenedForWrite_Append(data) == data

\* open(filepath, "w") of a file that holds data: it is truncated
OpenedForWrite(data) == <<>>

\* line 74: with open(filepath, "w") as f
save_checksums_open ==
    /\ st.pc = "save_open"
    /\ io' = io \cup {Sys("open", st.filepath)}
    /\ IF OpenWrite(fs, st.filepath) = "ok"
       THEN /\ fs' = [fs EXCEPT ![st.filepath] =
                         [kind |-> "file",
                          readable |-> IF @.kind = "file" THEN @.readable ELSE TRUE,
                          writable |-> TRUE,
                          data |-> OpenedForWrite(@.data)]]
            /\ saved' = [saved EXCEPT ![st.filepath] = None]
            /\ handles' = handles \cup {Handle(st.filepath, "w")}
            /\ st' = [st EXCEPT !.pc = "save_dump"]
            /\ UNCHANGED ret
       ELSE /\ st' = Idle
            /\ ret' = Raise(Exc(OpenWrite(fs, st.filepath), st.filepath))
            /\ UNCHANGED <<fs, saved, handles>>
    /\ UNCHANGED <<cc, vc, sd, cli, top, out, err, fed, ccErr, touched, nops, nenv>>

\* line 75: json.dump(checksums, f, indent=2), and the file is closed
save_checksums_dump ==
    /\ st.pc = "save_dump"
    /\ io' = io \cup {Sys("write", st.filepath)}
    /\ fs' = [fs EXCEPT ![st.filepath].data = @ \o EncodeText(json_dumps(st.checksums))]
    /\ saved' = [saved EXCEPT ![st.filepath] = st.checksums]
    /\ handles' = WithExit(handles, Handle(st.filepath, "w"))
    /\ st' = Idle
    /\ ret' = Return(None)
    /\ UNCHANGED <<cc, vc, sd, cli, top, out, err, fed, ccErr, touched, nops, nenv>>

\* line 75: the write fails (the device is full): a part of the document is
\* written, OSError leaves the with block
save_checksums_dump_error ==
    /\ st.pc = "save_dump"
    /\ io' = io \cup {Sys("write", st.filepath)}
    /\ fs' = [fs EXCEPT ![st.filepath].data = @ \o <<Ord("{")>>]
    /\ handles' = WithRaise(handles, Handle(st.filepath, "w"))
    /\ st' = Idle
    /\ ret' = Raise(Exc("OSError", st.filepath))
    /\ UNCHANGED <<cc, vc, sd, cli, top, out, err, fed, saved, ccErr, touched, nops, nenv>>

save_checksums ==
    \/ save_checksums_open
    \/ save_checksums_dump
    \/ save_checksums_dump_error

----------------------------------------------------------------------------
(* load_checksums(filepath)                                                *)

load_checksums_call(filepath, caller) ==
    [pc |-> "load_open", filepath |-> filepath, caller |-> caller]

\* line 90: with open(filepath, "r") as f
load_checksums_open ==
    /\ st.pc = "load_open"
    /\ io' = io \cup {Sys("open", st.filepath)}
    /\ IF OpenRead(fs, st.filepath) = "ok"
       THEN /\ handles' = handles \cup {Handle(st.filepath, "r")}
            /\ st' = [st EXCEPT !.pc = "load_parse"]
            /\ UNCHANGED ret
       ELSE /\ st' = Idle
            /\ ret' = Raise(Exc(OpenRead(fs, st.filepath), st.filepath))
            /\ UNCHANGED handles
    /\ UNCHANGED <<fs, cc, vc, sd, cli, top, out, err, fed, saved, ccErr, touched,
                   nops, nenv>>

\* what json.load(f) returns or raises for the bytes of the file
json_load(data, filepath) ==
    IF ~Decodes(data) THEN Raise(Exc("UnicodeDecodeError", filepath))
    ELSE IF ~json_loads(DecodeText(data)).ok THEN Raise(Exc("JSONDecodeError", filepath))
    ELSE Return(json_loads(DecodeText(data)).val)

\* line 91: return json.load(f), and the file is closed
load_checksums_parse ==
    /\ st.pc = "load_parse"
    /\ io' = io \cup {Sys("read", st.filepath)}
    /\ handles' = IF json_load(fs[st.filepath].data, st.filepath).kind = "raise"
                  THEN WithRaise(handles, Handle(st.filepath, "r"))
                  ELSE WithExit(handles, Handle(st.filepath, "r"))
    /\ st' = Idle
    /\ ret' = json_load(fs[st.filepath].data, st.filepath)
    /\ UNCHANGED <<fs, cc, vc, sd, cli, top, out, err, fed, saved, ccErr, touched,
                   nops, nenv>>

\* line 91: f.read fails (an I/O error of the device): OSError leaves the with block
load_checksums_read_error ==
    /\ st.pc = "load_parse"
    /\ io' = io \cup {Sys("read", st.filepath)}
    /\ handles' = WithRaise(handles, Handle(st.filepath, "r"))
    /\ st' = Idle
    /\ ret' = Raise(Exc("OSError", st.filepath))
    /\ UNCHANGED <<fs, cc, vc, sd, cli, top, out, err, fed, saved, ccErr, touched,
                   nops, nenv>>

load_checksums ==
    \/ load_checksums_open
    \/ load_checksums_parse
    \/ load_checksums_read_error

----------------------------------------------------------------------------
(* Path.glob, Path.relative_to and str(path)                               *)

\* fnmatch of name[i..] against pat[j..]: "*" stands for any characters, "?" for
\* one character, every other character for itself
RECURSIVE FnMatch(_, _, _, _)
FnMatch(name, i, pat, j) ==
    IF j > Len(pat) THEN i > Len(name)
    ELSE IF pat[j] = "*"
         THEN FnMatch(name, i, pat, j + 1) \/ (i <= Len(name) /\ FnMatch(name, i + 1, pat, j))
    ELSE /\ i <= Len(name)
         /\ (pat[j] = "?" \/ pat[j] = name[i])
         /\ FnMatch(name, i + 1, pat, j + 1)

\* p lies under directory dir
Under(dir, p) == Len(p) > Len(dir) /\ SubSeq(p, 1, Len(dir)) = dir

\* the paths of the model in the order a directory walk lists them
WalkOrder == <<pA, pB, pN, pS, pC, pT, pE, pX, pD, pJ, pQ, pO>>

\* line 112: pattern = "**/*" if recursive else "*": the depth glob descends to
DepthOk(dir, p, recursive) == recursive \/ Len(p) = Len(dir) + 1

\* whether glob yields entry p for directory dir and extension ext
GlobMatch(f, dir, ext, recursive, p) ==
    /\ Under(dir, p)
    /\ DepthOk(dir, p, recursive)
    /\ f[p].kind # "none"
    /\ FnMatch(Last(p), 1, <<"*">> \o ext, 1)

RECURSIVE GlobFrom(_, _, _, _, _)
GlobFrom(f, dir, ext, recursive, i) ==
    IF i > Len(WalkOrder) THEN <<>>
    ELSE IF GlobMatch(f, dir, ext, recursive, WalkOrder[i])
         THEN <<WalkOrder[i]>> \o GlobFrom(f, dir, ext, recursive, i + 1)
    ELSE GlobFrom(f, dir, ext, recursive, i + 1)

\* line 115: directory.glob(f"{pattern}{ext}"): the entries (files and
\* directories) under directory whose name matches "*" + ext; nothing when
\* directory is no directory
Glob(f, dir, ext, recursive) ==
    IF f[dir].kind # "dir" THEN <<>> ELSE GlobFrom(f, dir, ext, recursive, 1)

\* str(path): the names joined by "/"
RECURSIVE PathStr(_)
PathStr(p) ==
    IF Len(p) = 1 THEN p[1] ELSE p[1] \o <<"/">> \o PathStr(Tail(p))

\* line 117: path.relative_to(directory)
RelativeTo(p, dir) == SubSeq(p, Len(dir) + 1, Len(p))

----------------------------------------------------------------------------
(* scan_directory(directory, formats, recursive)                           *)

\* lines 107-112
scan_directory_call(directory, formats, recursive, caller) ==
    [pc |-> "glob", directory |-> directory,
     formats |-> IF formats = None THEN SUPPORTED_FORMATS ELSE formats,
     recursive |-> recursive, checksums |-> <<>>,
     ei |-> 1, matches |-> <<>>, mi |-> 1, caller |-> caller]

\* lines 114-115 and 120: the next extension's glob, or the return of checksums
scan_directory_glob ==
    /\ sd.pc = "glob"
    /\ IF sd.ei > Len(sd.formats)
       THEN /\ sd' = Idle
            /\ ret' = Return(sd.checksums)
            /\ UNCHANGED io
       ELSE /\ sd' = [sd EXCEPT !.pc = "next", !.mi = 1,
                        !.matches = Glob(fs, sd.directory, sd.formats[sd.ei], sd.recursive)]
            /\ io' = io \cup {Sys("scandir", sd.directory)}
            /\ UNCHANGED ret
    /\ UNCHANGED <<fs, handles, cc, vc, st, cli, top, out, err, fed, saved, ccErr,
                   touched, nops, nenv>>

\* lines 115-118: the next match: a file is hashed, anything else is passed over
scan_directory_next ==
    /\ sd.pc = "next"
    /\ IF sd.mi > Len(sd.matches)
       THEN /\ sd' = [sd EXCEPT !.pc = "glob", !.ei = @ + 1]
            /\ UNCHANGED <<cc, io, fed>>
       ELSE /\ io' = io \cup {Sys("stat", sd.matches[sd.mi])}
            /\ IF IsFile(fs, sd.matches[sd.mi])
               THEN /\ sd' = [sd EXCEPT !.pc = "await"]
                    /\ cc' = calculate_checksum_call(sd.matches[sd.mi], SHA256, "scan_directory")
                    /\ fed' = <<>>
               ELSE /\ sd' = [sd EXCEPT !.mi = @ + 1]
                    /\ UNCHANGED <<cc, fed>>
    /\ UNCHANGED <<fs, handles, vc, st, cli, ret, top, out, err, saved, ccErr,
                   touched, nops, nenv>>

\* mutant: a file whose hashing fails is skipped and the scan goes on
ScanAfterHash_Skip(frame, r) ==
    IF r.kind = "return"
    THEN [sd |-> [frame EXCEPT !.pc = "next", !.mi = @ + 1,
                    !.checksums = DictSet(@, PathStr(RelativeTo(frame.matches[frame.mi],
                                                                 frame.directory)), r.val)],
          ret |-> NoRet]
    ELSE [sd |-> [frame EXCEPT !.pc = "next", !.mi = @ + 1], ret |-> NoRet]

\* line 118: checksums[str(rel_path)] = calculate_checksum(path): the digest is
\* stored under the relative path; an exception leaves scan_directory, which has
\* no handler
ScanAfterHash(frame, r) ==
    IF r.kind = "return"
    THEN [sd |-> [frame EXCEPT !.pc = "next", !.mi = @ + 1,
                    !.checksums = DictSet(@, PathStr(RelativeTo(frame.matches[frame.mi],
                                                                 frame.directory)), r.val)],
          ret |-> NoRet]
    ELSE [sd |-> Idle, ret |-> r]

scan_directory_resume ==
    /\ sd.pc = "await"
    /\ cc.pc = "idle"
    /\ sd' = ScanAfterHash(sd, ret).sd
    /\ ret' = ScanAfterHash(sd, ret).ret
    /\ UNCHANGED <<fs, handles, cc, vc, st, cli, top, out, err, fed, io, saved,
                   ccErr, touched, nops, nenv>>

scan_directory ==
    \/ scan_directory_glob
    \/ scan_directory_next
    \/ scan_directory_resume

----------------------------------------------------------------------------
(* cli.py: main(args) and the sub-commands.  args is the namespace that    *)
(* argparse returns: an option that was not given is None.                 *)

\* args.command when no sub-command was given
NoCommand == "None"

main_call(args) == [pc |-> "dispatch", args |-> args, found |-> 0]

\* main returns an exit status or lets an exception out
main_end(r) == cli' = Idle /\ ret' = r

\* print(msg, file=stream)
Emit(stream, msg) == Append(stream, msg)

\* str.split(","), from position i with the part read so far
RECURSIVE SplitFrom(_, _, _)
SplitFrom(str, i, part) ==
    IF i > Len(str) THEN <<part>>
    ELSE IF str[i] = "," THEN <<part>> \o SplitFrom(str, i + 1, <<>>)
    ELSE SplitFrom(str, i + 1, Append(part, str[i]))

Split(str) == SplitFrom(str, 1, <<>>)

\* mutant: main leaves the check of the two options out
MissingChecksum_Unchecked(args) == FALSE

\* line 117: if not args.checksum and not args.checksum_file
MissingChecksum(args) == ~Truthy(args.checksum) /\ args.checksum_file = NoPath

\* lines 27 and 42: except FileNotFoundError
CliCaught == {"FileNotFoundError"}

\* lines 110-126: no command, or the sub-command's first call
main_dispatch ==
    /\ cli.pc = "dispatch"
    /\ LET args == cli.args IN
       CASE args.command = NoCommand ->
              \* lines 110-112: parser.print_help(); return 1
              /\ out' = Emit(out, <<"help">>)
              /\ main_end(Return(1))
              /\ UNCHANGED <<err, cc, vc, st, sd, fed>>
         [] args.command = "calculate" ->
              \* line 20: checksum = calculate_checksum(args.model)
              /\ cli' = [cli EXCEPT !.pc = "calculate_hashed"]
              /\ cc' = calculate_checksum_call(args.model, SHA256, "cmd_calculate")
              /\ fed' = <<>>
              /\ UNCHANGED <<out, err, ret, vc, st, sd>>
         [] args.command = "verify" /\ MissingChecksum(args) ->
              \* lines 117-119
              /\ err' = Emit(err, <<"Error: Either --checksum or --checksum-file required">>)
              /\ main_end(Return(1))
              /\ UNCHANGED <<out, cc, vc, st, sd, fed>>
         [] args.command = "verify" /\ ~MissingChecksum(args) /\ args.checksum_file # NoPath ->
              \* lines 34-36: checksums = load_checksums(args.checksum_file)
              /\ cli' = [cli EXCEPT !.pc = "verify_loaded"]
              /\ st' = load_checksums_call(args.checksum_file, "cmd_verify")
              /\ UNCHANGED <<out, err, ret, cc, vc, sd, fed>>
         [] args.command = "verify" /\ ~MissingChecksum(args) /\ args.checksum_file = NoPath ->
              \* lines 45-48: expected = args.checksum; verify_checksum(args.model, expected)
              /\ cli' = [cli EXCEPT !.pc = "verify_verified"]
              /\ vc' = verify_checksum_call(args.model, args.checksum, "cmd_verify")
              /\ cc' = calculate_checksum_call(args.model, SHA256, "verify_checksum")
              /\ fed' = <<>>
              /\ UNCHANGED <<out, err, ret, st, sd>>
         [] args.command = "scan" ->
              \* lines 58-63
              /\ cli' = [cli EXCEPT !.pc = "scan_scanned"]
              /\ sd' = scan_directory_call(args.directory,
                          IF Truthy(args.formats) THEN Split(args.formats) ELSE None,
                          ~args.no_recursive, "cmd_scan")
              /\ UNCHANGED <<out, err, ret, cc, vc, st, fed>>
         [] args.command = "formats" ->
              \* lines 73-77
              /\ out' = out \o get_supported_formats
              /\ main_end(Return(0))
              /\ UNCHANGED <<err, cc, vc, st, sd, fed>>
    /\ UNCHANGED <<fs, handles, top, io, saved, ccErr, touched, nops, nenv>>

\* lines 20-29: after calculate_checksum
cmd_calculate_hashed ==
    /\ cli.pc = "calculate_hashed"
    /\ cc.pc = "idle"
    /\ IF ret.kind = "return"
       THEN IF cli.args.output # NoPath
            THEN \* line 22: save_checksums({args.model: checksum}, args.output)
                 /\ cli' = [cli EXCEPT !.pc = "calculate_saved"]
                 /\ st' = save_checksums_call(<< <<PathStr(cli.args.model), ret.val>> >>,
                                              cli.args.output, "cmd_calculate")
                 /\ ret' = NoRet
                 /\ UNCHANGED <<out, err>>
            ELSE \* lines 25-26
                 /\ out' = Emit(out, ret.val)
                 /\ main_end(Return(0))
                 /\ UNCHANGED <<err, st>>
       ELSE IF Catches(CliCaught, ret.exc)
            THEN \* lines 27-29
                 /\ err' = Emit(err, <<"Error", ret.exc.type>>)
                 /\ main_end(Return(1))
                 /\ UNCHANGED <<out, st>>
            ELSE /\ main_end(ret)
                 /\ UNCHANGED <<out, err, st>>
    /\ UNCHANGED <<fs, handles, cc, vc, sd, top, fed, io, saved, ccErr, touched,
                   nops, nenv>>

\* lines 22-29: after save_checksums
cmd_calculate_saved ==
    /\ cli.pc = "calculate_saved"
    /\ st.pc = "idle"
    /\ IF ret.kind = "return"
       THEN /\ out' = Emit(out, <<"Checksum saved to", cli.args.output>>)
            /\ main_end(Return(0))
            /\ UNCHANGED err
       ELSE IF Catches(CliCaught, ret.exc)
            THEN /\ err' = Emit(err, <<"Error", ret.exc.type>>)
                 /\ main_end(Return(1))
                 /\ UNCHANGED out
            ELSE /\ main_end(ret)
                 /\ UNCHANGED <<out, err>>
    /\ UNCHANGED <<fs, handles, cc, vc, st, sd, top, fed, io, saved, ccErr, touched,
                   nops, nenv>>

\* lines 36-44: after load_checksums
cmd_verify_loaded ==
    /\ cli.pc = "verify_loaded"
    /\ st.pc = "idle"
    /\ IF ret.kind = "return"
       THEN IF DictHas(ret.val, PathStr(cli.args.model))
            THEN \* lines 38 and 48
                 /\ cli' = [cli EXCEPT !.pc = "verify_verified"]
                 /\ vc' = verify_checksum_call(cli.args.model,
                             DictGet(ret.val, PathStr(cli.args.model)), "cmd_verify")
                 /\ cc' = calculate_checksum_call(cli.args.model, SHA256, "verify_checksum")
                 /\ fed' = <<>>
                 /\ ret' = NoRet
                 /\ UNCHANGED <<out, err>>
            ELSE \* lines 40-41
                 /\ err' = Emit(err, <<"Error: Model not found in checksum file">>)
                 /\ main_end(Return(1))
                 /\ UNCHANGED <<out, vc, cc, fed>>
       ELSE IF Catches(CliCaught, ret.exc)
            THEN \* lines 42-44
                 /\ err' = Emit(err, <<"Error", ret.exc.type>>)
                 /\ main_end(Return(1))
                 /\ UNCHANGED <<out, vc, cc, fed>>
            ELSE /\ main_end(ret)
                 /\ UNCHANGED <<out, err, vc, cc, fed>>
    /\ UNCHANGED <<fs, handles, st, sd, top, io, saved, ccErr, touched, nops, nenv>>

\* lines 48-53: after verify_checksum
cmd_verify_verified ==
    /\ cli.pc = "verify_verified"
    /\ vc.pc = "idle" /\ cc.pc = "idle"
    /\ IF ret.kind = "return"
       THEN IF ret.val
            THEN /\ out' = Emit(out, <<"Checksum verified successfully">>)
                 /\ main_end(Return(0))
                 /\ UNCHANGED err
            ELSE /\ err' = Emit(err, <<"Checksum mismatch!">>)
                 /\ main_end(Return(1))
                 /\ UNCHANGED out
       ELSE /\ main_end(ret)
            /\ UNCHANGED <<out, err>>
    /\ UNCHANGED <<fs, handles, cc, vc, st, sd, top, fed, io, saved, ccErr, touched,
                   nops, nenv>>

\* lines 65-70: after scan_directory
cmd_scan_scanned ==
    /\ cli.pc = "scan_scanned"
    /\ sd.pc = "idle" /\ cc.pc = "idle"
    /\ IF ret.kind = "return"
       THEN IF cli.args.output # NoPath
            THEN \* line 66: save_checksums(checksums, args.output)
                 /\ cli' = [cli EXCEPT !.pc = "scan_saved", !.found = Len(ret.val)]
                 /\ st' = save_checksums_call(ret.val, cli.args.output, "cmd_scan")
                 /\ ret' = NoRet
                 /\ UNCHANGED out
            ELSE \* line 69: print(json.dumps(checksums, indent=2))
                 /\ out' = Emit(out, json_dumps(ret.val))
                 /\ main_end(Return(0))
                 /\ UNCHANGED st
       ELSE /\ main_end(ret)
            /\ UNCHANGED <<out, st>>
    /\ UNCHANGED <<fs, handles, cc, vc, sd, top, err, fed, io, saved, ccErr, touched,
                   nops, nenv>>

\* lines 66-70: after save_checksums
cmd_scan_saved ==
    /\ cli.pc = "scan_saved"
    /\ st.pc = "idle"
    /\ IF ret.kind = "return"
       THEN /\ out' = Emit(out, <<"Found", cli.found, "Checksums saved to", cli.args.output>>)
            /\ main_end(Return(0))
       ELSE /\ main_end(ret)
            /\ UNCHANGED out
    /\ UNCHANGED <<fs, handles, cc, vc, st, sd, top, err, fed, io, saved, ccErr,
                   touched, nops, nenv>>

main ==
    \/ main_dispatch
    \/ cmd_calculate_hashed
    \/ cmd_calculate_saved
    \/ cmd_verify_loaded
    \/ cmd_verify_verified
    \/ cmd_scan_scanned
    \/ cmd_scan_saved

----------------------------------------------------------------------------
(* The user and the environment *)

AllIdle ==
    /\ cc.pc = "idle" /\ vc.pc = "idle" /\ st.pc = "idle"
    /\ sd.pc = "idle" /\ cli.pc = "idle"

\* what a user call resets
NewCall(call) ==
    /\ top' = call
    /\ ret' = NoRet
    /\ fed' = <<>>
    /\ io' = {}
    /\ ccErr' = {}
    /\ touched' = {}
    /\ nops' = nops + 1

\* the user's call finished: this is what it returned or raised
Done == AllIdle /\ ret.kind # "none"
Returned == Done /\ ret.kind = "return"
Raised == Done /\ ret.kind = "raise"

Algorithms == {SHA256, <<"M", "D", "5">>, <<"S", "H", "A", "1">>, <<"c", "r", "c">>}

\* the strings a caller may expect: the file's digest, its uppercase, another
Expected(f, p) ==
    {Digest(SHA256, f[p].data), Upper(Digest(SHA256, f[p].data)),
     <<"0", "0", "0", "0">>, <<>>}

UserCalculate(p, alg) ==
    /\ AllIdle
    /\ NewCall([fn |-> "calculate_checksum", path |-> p, algorithm |-> alg])
    /\ cc' = calculate_checksum_call(p, alg, "user")
    /\ UNCHANGED <<fs, handles, vc, st, sd, cli, out, err, saved, nenv>>

UserVerify(p, e) ==
    /\ AllIdle
    /\ NewCall([fn |-> "verify_checksum", path |-> p, expected |-> e])
    /\ vc' = verify_checksum_call(p, e, "user")
    /\ cc' = calculate_checksum_call(p, SHA256, "verify_checksum")
    /\ UNCHANGED <<fs, handles, st, sd, cli, out, err, saved, nenv>>

\* another process removes a file no handle of the program is open on, while a
\* call of the user runs
EnvRemove(p) ==
    /\ nenv < MaxEnv
    /\ ~AllIdle
    /\ fs[p].kind = "file"
    /\ \A h \in handles : h.path # p
    /\ fs' = [fs EXCEPT ![p] = NoNode]
    /\ touched' = touched \cup {p}
    /\ nenv' = nenv + 1
    /\ UNCHANGED <<handles, cc, vc, st, sd, cli, ret, top, out, err, fed, io,
                   saved, ccErr, nops>>

\* another process revokes the permissions of a file, while a call of the user
\* runs
EnvRevoke(p) ==
    /\ nenv < MaxEnv
    /\ ~AllIdle
    /\ fs[p].kind = "file"
    /\ fs[p].readable
    /\ \A h \in handles : h.path # p
    /\ fs' = [fs EXCEPT ![p].readable = FALSE, ![p].writable = FALSE]
    /\ touched' = touched \cup {p}
    /\ nenv' = nenv + 1
    /\ UNCHANGED <<handles, cc, vc, st, sd, cli, ret, top, out, err, fed, io,
                   saved, ccErr, nops>>

Env == \E p \in Paths : EnvRemove(p) \/ EnvRevoke(p)

InitProgram ==
    /\ handles = {}
    /\ cc = Idle /\ vc = Idle /\ st = Idle /\ sd = Idle /\ cli = Idle
    /\ ret = NoRet
    /\ top = [fn |-> "none"]
    /\ out = <<>> /\ err = <<>>
    /\ fed = <<>>
    /\ io = {}
    /\ saved = [p \in Paths |-> None]
    /\ ccErr = {}
    /\ touched = {}
    /\ nops = 0
    /\ nenv = 0

----------------------------------------------------------------------------
(* SpecHasher: calls of calculate_checksum and verify_checksum on a        *)
(* missing path, a directory, an unreadable file and readable files, with  *)
(* the environment removing a file or revoking its permissions meanwhile.  *)

SmallData == {<<>>, <<0>>, <<1>>, <<0, 1>>, <<1, 0>>, <<255, 7, 7>>}

InitHasher ==
    /\ InitProgram
    /\ \E da \in SmallData :
          fs = [EmptyFs EXCEPT ![pD] = Dir, ![pA] = File(da), ![pB] = Locked(<<1>>)]

HasherTargets == {pA, pB, pD, pN}

NextHasher ==
    \/ \E p \in HasherTargets, alg \in Algorithms : nops < MaxOps /\ UserCalculate(p, alg)
    \/ \E p \in HasherTargets : \E e \in Expected(fs, p) : nops < MaxOps /\ UserVerify(p, e)
    \/ calculate_checksum
    \/ verify_checksum_resume
    \/ Env

SpecHasher == InitHasher /\ [][NextHasher]_vars

----------------------------------------------------------------------------
(* SpecChunk: one call of calculate_checksum on files whose lengths lie    *)
(* around the multiples of the chunk size.                                 *)

\* byte i of a test file
ByteAt(i) == (i * 7 + (i - 1) \div CHUNK) % 256

Bytes(n) == [i \in 1..n |-> ByteAt(i)]

ChunkLens ==
    {0, 1, CHUNK - 1, CHUNK, CHUNK + 1, MaxChunks * CHUNK, MaxChunks * CHUNK + 1}

InitChunk ==
    /\ InitProgram
    /\ \E n \in ChunkLens :
          fs = [EmptyFs EXCEPT ![pD] = Dir, ![pA] = File(Bytes(n))]

NextChunk ==
    \/ \E p \in {pA, pN}, alg \in Algorithms : nops = 0 /\ UserCalculate(p, alg)
    \/ calculate_checksum

SpecChunk == InitChunk /\ [][NextChunk]_vars

----------------------------------------------------------------------------
(* Claims about calculate_checksum and verify_checksum *)

TopIs(fn) == top.fn = fn

\* the target of the user's call is a regular file the program may read
ReadableFile(f, p) == f[p].kind = "file" /\ f[p].readable

\* C1 (as claimed): verify_checksum never raises: whatever the path is (missing,
\* a directory, unreadable, failing mid-read) and whatever string is expected,
\* the call ends by returning a boolean.
C1_VerifyNeverRaises ==
    (Done /\ TopIs("verify_checksum")) => (ret.kind = "return" /\ ret.val \in BOOLEAN)

\* C6 (as claimed): calculate_checksum on a target that is not an existing
\* readable file (missing, unreadable, or not a regular file) fails with
\* FileNotFoundError carrying the path, and with no other kind of error.
C6_NotReadableIsFileNotFound ==
    (Done /\ TopIs("calculate_checksum") /\ touched = {}
          /\ ~ReadableFile(fs, top.path))
        => ret = Raise(Exc("FileNotFoundError", top.path))

Supported(alg) == Lower(alg) \in {SHA256, <<"m", "d", "5">>, <<"s", "h", "a", "1">>}

\* C6 (amended): calculate_checksum fails with FileNotFoundError, carrying the
\* requested path, whenever the path does not exist, and only then; with a
\* supported algorithm, an existing directory fails with IsADirectoryError and an
\* existing unreadable file with PermissionError.
C6_MissingIsFileNotFound ==
    (Done /\ TopIs("calculate_checksum")) =>
        /\ (touched = {} /\ ~Exists(fs, top.path))
               => ret = Raise(Exc("FileNotFoundError", top.path))
        /\ (ret.kind = "raise" /\ ret.exc.type = "FileNotFoundError")
               => (ret.exc.path = top.path /\ ~Exists(fs, top.path))
        /\ (touched = {} /\ Supported(top.algorithm) /\ fs[top.path].kind = "dir")
               => ret = Raise(Exc("IsADirectoryError", top.path))
        /\ (touched = {} /\ Supported(top.algorithm) /\ fs[top.path].kind = "file"
                         /\ ~fs[top.path].readable)
               => ret = Raise(Exc("PermissionError", top.path))

\* C6 witness: a call on a missing path, with an algorithm the program does not
\* support, has raised FileNotFoundError.
C6_Witness ==
    /\ Done /\ TopIs("calculate_checksum") /\ touched = {}
    /\ ~Exists(fs, top.path)
    /\ ~Supported(top.algorithm)
    /\ ret = Raise(Exc("FileNotFoundError", top.path))

\* C8: for an existing readable file whose content the environment leaves alone
\* and whose reads succeed, verify_checksum returns True when the expected string
\* is the file's digest and False for every other string, the digest in
\* uppercase included.
C8_VerifySymmetry ==
    (Done /\ TopIs("verify_checksum") /\ touched = {} /\ ccErr = {}
          /\ ReadableFile(fs, top.path))
        => ret = Return(top.expected = Digest(SHA256, fs[top.path].data))

\* C8 witness: verify_checksum has returned True for a readable file's digest,
\* a digest with letters in it.
C8_Witness ==
    /\ Done /\ TopIs("verify_checksum") /\ touched = {} /\ ccErr = {}
    /\ ReadableFile(fs, top.path)
    /\ top.expected = Digest(SHA256, fs[top.path].data)
    /\ Upper(top.expected) # top.expected
    /\ ret = Return(TRUE)

\* the file the running (or finished) calculate_checksum reads
HashedData == fs[top.path].data

ChunksOk ==
    TopIs("calculate_checksum") =>
        /\ \A i \in DOMAIN fed : Len(fed[i]) >= 1 /\ Len(fed[i]) <= CHUNK
        /\ Len(fed) * CHUNK < Len(HashedData) + CHUNK
        /\ cc.pc = "read" =>
              /\ cc.pos <= Len(HashedData)
              /\ Concat(fed) = SubSeq(HashedData, 1, cc.pos)
        /\ Returned =>
              /\ Concat(fed) = HashedData
              /\ ret.val = Digest(Lower(top.algorithm), HashedData)

\* a step of the read loop leaves the loop or moves on in the file
ReadProgress ==
    (cc.pc = "read") => (cc'.pc = "idle" \/ (cc'.pc = "read" /\ cc'.pos > cc.pos))

\* C10: every step of the read loop leaves the loop or advances in the file, at
\* most once per chunk of the file, so the loop ends; what it feeds the digest
\* are chunks of 1 to 8192 bytes whose concatenation, in order, is the file's
\* content, and the result is the digest of the whole content computed in one step.
C10_ChunkedRead == []ChunksOk /\ [][ReadProgress]_vars

\* C10 witness: a file of MaxChunks full chunks and one byte was hashed in
\* MaxChunks + 1 chunks, the last of one byte.
C10_Witness ==
    /\ Returned /\ TopIs("calculate_checksum")
    /\ Len(HashedData) = MaxChunks * CHUNK + 1
    /\ Len(fed) = MaxChunks + 1
    /\ Len(Last(fed)) = 1

----------------------------------------------------------------------------
(* SpecStore: saves of records to a path that is absent, holds another     *)
(* record, or holds no JSON, to a directory and into a missing directory,  *)
(* and loads.                                                              *)

UserSave(d, p) ==
    /\ AllIdle
    /\ NewCall([fn |-> "save_checksums", checksums |-> d, filepath |-> p])
    /\ st' = save_checksums_call(d, p, "user")
    /\ UNCHANGED <<fs, handles, cc, vc, sd, cli, out, err, saved, nenv>>

UserLoad(p) ==
    /\ AllIdle
    /\ NewCall([fn |-> "load_checksums", filepath |-> p])
    /\ st' = load_checksums_call(p, "user")
    /\ UNCHANGED <<fs, handles, cc, vc, sd, cli, out, err, saved, nenv>>

sA == <<"a">>
sQuote == <<QUOTE, BACKSLASH>>
sBackslashN == <<BACKSLASH, "n">>
sNewline == <<"b", NEWLINE>>
Strs == {<<>>, sA, sQuote, sBackslashN, sNewline}

\* the records saved: empty, every record of one item, and records of two items
Records ==
    {<<>>} \cup {<< <<k, v>> >> : k \in Strs, v \in Strs}
           \cup {<< <<k, v>>, <<sA, k>> >> : k \in {sQuote, sBackslashN}, v \in {sA, sNewline}}

InitStore ==
    /\ InitProgram
    /\ \E before \in {NoNode, File(<<255>>), File(EncodeText(<<"{">>)),
                      File(EncodeText(json_dumps(<< <<sA, sA>>, <<sQuote, sA>> >>))),
                      Locked(EncodeText(json_dumps(<< <<sA, sA>> >>)))} :
          fs = [EmptyFs EXCEPT ![pD] = Dir, ![pJ] = before]

StoreTargets == {pJ, pD, pO}

NextStore ==
    \/ \E d \in Records, p \in StoreTargets : nops < MaxOps /\ UserSave(d, p)
    \/ \E p \in StoreTargets : nops < MaxOps /\ UserLoad(p)
    \/ save_checksums
    \/ load_checksums

SpecStore == InitStore /\ [][NextStore]_vars

\* C5: once save_checksums(R, p) has succeeded, whatever p held before and
\* whatever was saved there earlier, a load_checksums(p) whose read succeeds
\* returns a mapping equal to R, the last record saved.
C5_SaveLoadRoundTrip ==
    (Done /\ TopIs("load_checksums") /\ saved[top.filepath] # None
          /\ ~(ret.kind = "raise" /\ ret.exc.type = "OSError"))
        => (ret.kind = "return" /\ DictEq(ret.val, saved[top.filepath]))

\* C5 witness: a load has returned the two items, escapes included, that were
\* saved over a file holding another document.
C5_Witness ==
    /\ Done /\ TopIs("load_checksums")
    /\ saved[top.filepath] # None
    /\ ret.kind = "return"
    /\ Len(ret.val) = 2
    /\ \E i \in 1..2 : ret.val[i][2] = sNewline
    /\ DictEq(ret.val, saved[top.filepath])

----------------------------------------------------------------------------
(* SpecScan: one call of scan_directory on trees with matching and other   *)
(* files, a directory named like a model, nested directories, an           *)
(* unreadable file; the environment may remove a file or revoke its        *)
(* permissions while the scan runs.                                        *)

UserScan(dir, formats, recursive) ==
    /\ AllIdle
    /\ NewCall([fn |-> "scan_directory", directory |-> dir, formats |-> formats,
                recursive |-> recursive])
    /\ sd' = scan_directory_call(dir, formats, recursive, "user")
    /\ UNCHANGED <<fs, handles, cc, vc, st, cli, out, err, saved, nenv>>

\* the formats a caller passes: the default, one extension, two extensions that
\* match the same file, the empty extension, an extension with a wildcard
ScanFormats ==
    {None, << <<".", "h", "5">> >>, << <<"5">>, <<".", "h", "5">> >>,
     << <<>> >>, << <<".", "h", "?">> >>}

Tree(a, b, x, sub) ==
    [p \in Paths |->
        CASE p = pD -> Dir
          [] p = pA -> a
          [] p = pB -> b
          [] p = pN -> File(<<9>>)
          [] p = pX -> x
          [] p \in {pS, pT} -> IF sub THEN Dir ELSE NoNode
          [] p = pC -> IF sub THEN File(<<1, 0>>) ELSE NoNode
          [] p = pE -> IF sub THEN File(<<>>) ELSE NoNode
          [] OTHER -> NoNode]

ScanTrees ==
    {Tree(a, b, x, sub) : a \in {File(<<1>>), Locked(<<1>>)}, b \in {NoNode, File(<<0, 1>>)},
                          x \in {NoNode, Dir}, sub \in BOOLEAN}

InitScan == InitProgram /\ fs \in ScanTrees

NextScan ==
    \/ \E dir \in {pD, pS, pQ}, formats \in ScanFormats, recursive \in BOOLEAN :
          nops = 0 /\ UserScan(dir, formats, recursive)
    \/ scan_directory
    \/ calculate_checksum
    \/ Env

SpecScan == InitScan /\ [][NextScan]_vars

\* name ends with ext
EndsWith(name, ext) ==
    Len(ext) <= Len(name) /\ SubSeq(name, Len(name) - Len(ext) + 1, Len(name)) = ext

\* the regular files under dir, at the depth asked for, whose name ends with one
\* of the extensions
ModelFiles(f, dir, formats, recursive) ==
    {p \in Paths : /\ Under(dir, p)
                   /\ recursive \/ Len(p) = Len(dir) + 1
                   /\ f[p].kind = "file"
                   /\ \E i \in DOMAIN formats : EndsWith(Last(p), formats[i])}

\* d holds one item per file of files, keyed by its path relative to dir, whose
\* value is the file's digest, and nothing else
IsRecordOf(d, f, dir, files) ==
    /\ Len(d) = Cardinality(files)
    /\ \A p \in files : DictHas(d, PathStr(RelativeTo(p, dir)))
                        /\ DictGet(d, PathStr(RelativeTo(p, dir))) = Digest(SHA256, f[p].data)

ScanFormatsOf(call) == IF call.formats = None THEN SUPPORTED_FORMATS ELSE call.formats

\* C3 (as claimed): what scan_directory returns holds exactly one item per regular
\* file under dir (at any depth when recursive, direct children otherwise) whose
\* name ends with one of the extensions in formats, keyed by the path relative
\* to dir, its value the file's digest.
C3_ScanExact ==
    (Returned /\ TopIs("scan_directory") /\ touched = {}) =>
        IsRecordOf(ret.val, fs, top.directory,
                   ModelFiles(fs, top.directory, ScanFormatsOf(top), top.recursive))

\* no character of the extensions is a wildcard of glob
Literal(formats) ==
    \A i \in DOMAIN formats : \A j \in DOMAIN formats[i] : formats[i][j] \notin {"*", "?", "["}

\* C3, for extensions without glob wildcards: the same statement holds.
C3_ScanExactLiteral ==
    (Returned /\ TopIs("scan_directory") /\ touched = {} /\ Literal(ScanFormatsOf(top)))
        => C3_ScanExact

\* C4: when calculate_checksum fails for a matched file, the scan stops there and
\* ends by raising that very error: no mapping is returned and no other file is
\* hashed after the failure.
C4_ScanFailsWhole ==
    (TopIs("scan_directory") /\ ccErr # {}) =>
        /\ Cardinality(ccErr) = 1
        /\ sd.pc \in {"await", "idle"}
        /\ sd.pc = "idle" => (ret.kind = "raise" /\ ret.exc \in ccErr)

\* C4 witness: a scan that had hashed one file has ended with the PermissionError
\* of another file, whose permissions were revoked while the scan ran.
C4_Witness ==
    /\ Done /\ TopIs("scan_directory")
    /\ ret.kind = "raise" /\ ret.exc.type = "PermissionError"
    /\ ret.exc.path \in touched
    /\ \E p \in Paths : p # ret.exc.path /\ Sys("read", p) \in io

----------------------------------------------------------------------------
(* SpecCli: runs of the command line: every sub-command, on a model that   *)
(* is readable, unreadable, a directory or missing, with a checksum file   *)
(* that is absent, corrupt or valid, and outputs to a file, a directory or *)
(* into a missing directory.                                               *)

UserMain(args) ==
    /\ AllIdle
    /\ NewCall([fn |-> "main", args |-> args])
    /\ cli' = main_call(args)
    /\ out' = <<>>
    /\ err' = <<>>
    /\ UNCHANGED <<fs, handles, cc, vc, st, sd, saved, nenv>>

CalculateArgs ==
    {[command |-> "calculate", model |-> m, output |-> o] :
        m \in {pA, pB, pN}, o \in {NoPath, pJ, pD}} \cup
    {[command |-> "calculate", model |-> pA, output |-> pO]}

VerifyArgs ==
    {[command |-> "verify", model |-> m, checksum |-> c, checksum_file |-> cf] :
        m \in {pA, pN, pD},
        c \in {None, <<>>, Digest(SHA256, <<1>>)},
        cf \in {NoPath, pJ, pQ}}

ScanArgs ==
    {[command |-> "scan", directory |-> pD, formats |-> fm, no_recursive |-> nr, output |-> o] :
        fm \in {None, <<".", "h", "5", ",", ".", "p", "t">>},
        nr \in BOOLEAN, o \in {NoPath, pJ, pD}}

OtherArgs == {[command |-> "formats"], [command |-> NoCommand]}

InitCli ==
    /\ InitProgram
    /\ \E j \in {NoNode, File(EncodeText(<<"{">>)),
                 File(EncodeText(json_dumps(<< <<PathStr(pA), Digest(SHA256, <<1>>)>> >>))),
                 File(EncodeText(json_dumps(<< <<PathStr(pB), <<"0", "0", "0", "0">>>> >>)))} :
          fs = [EmptyFs EXCEPT ![pD] = Dir, ![pA] = File(<<1>>), ![pB] = Locked(<<1>>),
                               ![pS] = Dir, ![pC] = File(<<1, 0>>), ![pJ] = j]

NextCli ==
    \/ \E args \in CalculateArgs \cup VerifyArgs \cup ScanArgs \cup OtherArgs :
          nops < MaxOps /\ UserMain(args)
    \/ main
    \/ calculate_checksum
    \/ verify_checksum_resume
    \/ save_checksums
    \/ load_checksums
    \/ scan_directory
    \/ Env

SpecCli == InitCli /\ [][NextCli]_vars

\* C2 (as claimed): no error leaves main: whatever the sub-command, its arguments
\* and the file system, main ends by returning an exit status.
C2_MainCatchesAll ==
    (Done /\ TopIs("main")) => ret.kind = "return"

\* the user ran verify with neither --checksum nor --checksum-file
VerifyWithNeither ==
    /\ TopIs("main")
    /\ top.args.command = "verify"
    /\ top.args.checksum = None
    /\ top.args.checksum_file = NoPath

\* C7: verify with neither --checksum nor --checksum-file makes no file-system
\* call at any point of the run, calls no library function, and ends with exit
\* status 1 and a message on the error stream.
C7_VerifyUsageError ==
    VerifyWithNeither =>
        /\ io = {}
        /\ cc.pc = "idle" /\ vc.pc = "idle" /\ st.pc = "idle" /\ sd.pc = "idle"
        /\ cli.pc = "idle" => (ret = Return(1) /\ Len(err) = 1 /\ out = <<>>)

\* C7 witness: such a run on an existing model file has ended.
C7_Witness ==
    /\ VerifyWithNeither
    /\ Done
    /\ ReadableFile(fs, top.args.model)
    /\ ret = Return(1)

\* C9: a file handle is open only while calculate_checksum is in its read
\* loop, save_checksums is writing or load_checksums is reading; when any of
\* them has returned or raised (to the user or to the scan or the command that
\* called it) no handle is left open, and never more than one is open.
C9_HandlesClosed ==
    /\ (cc.pc # "read" /\ st.pc \notin {"save_dump", "load_parse"}) => handles = {}
    /\ Cardinality(handles) <= 1

\* C9 witness: a scan that had hashed a file was aborted by a read error in the
\* middle of another file, and no handle is open.
C9_Witness ==
    /\ Done /\ TopIs("main") /\ top.args.command = "scan"
    /\ ret.kind = "raise" /\ ret.exc.type = "OSError"
    /\ \E p \in Paths : p # ret.exc.path /\ Sys("read", p) \in io
    /\ handles = {}

====
